---- MODULE Spec2Model ----
\* Connection lifecycle of the MCP integration.  The repository holds
\* several versions of the plugin; the one deployed is drawn in Init:
\*   "index3"  the caching variant: src/src/index3.ts with the
\*             registry-resolving MCPClient of src/src/client3.ts;
\*   "index2"  the per-call stdio variant: src/src/index2.ts with the
\*             stdio/sse MCPClient of src/unnamed/part_003.
\* JavaScript runs one task at a time and a task is suspended only at an
\* await of I/O, so every action below is one run of code from one
\* suspension point to the next.
EXTENDS Integers, Sequences, FiniteSets, TLC

\* ---------------------------------------------------------------- bounds
MaxProcs == 2
MaxClients == 2
MaxServers == 2
MaxConfigEntries == 1
MaxText == 3
MaxArgs == 2
MaxConnections == 2
MaxResults == 2
MaxTools == 2
MaxHeaderText == 5

\* ------------------------------------------------------------- constants
Names == {"a", "b"}
Procs == 1..MaxProcs
Reg == 0
Tasks == {Reg} \cup Procs
ClientIds == 1..MaxClients
NoClient == 0

\* One entry of ctx.configuration.servers.
ServerEntry(n, key, qn, json) ==
    [internalName |-> n, smitheryApiKey |-> key,
     smitheryQualifiedName |-> qn, smitheryServerConfigJson |-> json]

\* What JSON.parse makes of smitheryServerConfigJson.
JsonKinds == {"absent", "invalid", "null", "scalar", "array", "object"}

OkEntry(n) == ServerEntry(n, TRUE, TRUE, "object")

\* The sequences over S of length at most k.
RECURSIVE SeqsUpTo(_, _)
SeqsUpTo(S, k) ==
    IF k = 0 THEN {<<>>}
    ELSE LET shorter == SeqsUpTo(S, k - 1)
         IN shorter \cup {Append(s, e) : s \in {x \in shorter : Len(x) = k - 1}, e \in S}

\* The server entries the lifecycle specification draws its configuration from.
LifecycleEntries == {OkEntry(n) : n \in Names}

\* The configurations of the lifecycle specification: every list of at most
\* MaxServers entries, up to renaming (a non-empty list starts with "a").
LifecycleConfigs ==
    {s \in SeqsUpTo(LifecycleEntries, MaxServers) :
        Len(s) > 0 => s[1].internalName = "a"}

\* Every shape an entry named "a" can have: each required field present or
\* not, and each kind of smitheryServerConfigJson.
ConfigEntries ==
    {ServerEntry("a", key, qn, json) :
        key \in BOOLEAN, qn \in BOOLEAN, json \in JsonKinds}

\* The configurations of the specification of configuration errors.
ConfigLists == SeqsUpTo(ConfigEntries, MaxConfigEntries)

\* What index2.ts finds in ctx.configuration.configuration: a JSON text that
\* does not parse, one whose first key holds no connection object, one whose
\* connection has no command, and a complete one.
StdioConfigs == {"unparseable", "noConnection", "noCommand", "ok"}

VARIABLES
    variant,           \* which version of the plugin runs
    configuration,     \* index2: ctx.configuration.configuration
    hasClose,          \* client -> its transport has a close method
    servers,           \* index3: ctx.configuration.servers
    connectedClients,  \* the map internalName -> MCPClient (NoClient: no entry)
    nClients,          \* MCPClient objects constructed so far
    cname,             \* client -> config.internalName
    connected,         \* client -> MCPClient.connected
    sdk,               \* client -> state of the underlying SDK client and its transport
    timer,             \* client -> the 30 s setTimeout of connect is "armed" or "unset"
    pc,                \* task -> where it is suspended
    tname,             \* task -> internalName it works on (a local: reset when it ends)
    tcli,              \* task -> the MCPClient it holds (a local: reset when it ends)
    kind,              \* task -> how it ended: "none", "ok", "RuntimeError", "Error"
    why,               \* task -> which failure it ended with
    regIdx,            \* register: index of the server entry being connected
    unregPc,           \* unregister: "idle", "waiting", "done"
    unregPending,      \* unregister: clients whose disconnect() is awaited
    unregThrew,        \* unregister: some disconnect() of this run threw
    unregKind,         \* unregister: how it ended
    call,              \* the function applied on its own, with its arguments
    result             \* what that function returned or threw

vars == <<variant, configuration, hasClose,
          servers, connectedClients, nClients, cname, connected, sdk, timer,
          pc, tname, tcli, kind, why, regIdx,
          unregPc, unregPending, unregThrew, unregKind, call, result>>

clientVars == <<nClients, cname, connected, sdk, timer, hasClose>>
inputVars == <<variant, configuration, servers, call, result>>
taskVars == <<pc, tname, tcli, kind, why, regIdx>>
unregVars == <<unregPc, unregPending, unregThrew, unregKind>>

EmptyMap == [n \in Names |-> NoClient]

\* No function is applied on its own; nothing has been returned yet.
NoCall == [fn |-> "none"]
NoResult == [status |-> "none"]

\* ------------------------------------------------- getAndParseServerConfig
\* serverConfigs.find(s => s.internalName === internalName): the first match.
FindEntry(srv, n) ==
    LET hits == {i \in 1..Len(srv) : srv[i].internalName = n}
    IN IF hits = {} THEN 0 ELSE CHOOSE i \in hits : \A j \in hits : i <= j

\* typeof JSON.parse(text) === 'object' and not null: arrays pass.
ParsesToObject(json) == json \in {"array", "object"}

\* A getAndParseServerConfig that validates nothing.
AcceptsAnyEntry(srv, n) == "ok"

\* "ok", or the configuration error the function throws.
GetAndParseServerConfig(srv, n) ==
    LET i == FindEntry(srv, n)
    IN IF i = 0 THEN "notFound"
       ELSE IF ~srv[i].smitheryApiKey \/ ~srv[i].smitheryQualifiedName
               \/ srv[i].smitheryServerConfigJson = "absent" THEN "incomplete"
       ELSE IF ~ParsesToObject(srv[i].smitheryServerConfigJson) THEN "badJson"
       ELSE "ok"

\* ------------------------------------------------------------------ Init
\* Module load: the map is empty, no client exists, no handler runs.
LifecycleStart ==
    /\ hasClose = [c \in ClientIds |-> TRUE]
    /\ connectedClients = EmptyMap
    /\ nClients = 0
    /\ cname = [c \in ClientIds |-> "a"]
    /\ connected = [c \in ClientIds |-> FALSE]
    /\ sdk = [c \in ClientIds |-> "unborn"]
    /\ timer = [c \in ClientIds |-> "unset"]
    /\ pc = [t \in Tasks |-> "idle"]
    /\ tname = [t \in Tasks |-> "a"]
    /\ tcli = [t \in Tasks |-> NoClient]
    /\ kind = [t \in Tasks |-> "none"]
    /\ why = [t \in Tasks |-> "none"]
    /\ regIdx = 0
    /\ unregPc = "idle"
    /\ unregPending = {}
    /\ unregThrew = FALSE
    /\ unregKind = "none"

Init ==
    /\ variant \in {"index3", "index2"}
    /\ IF variant = "index3"
       THEN servers \in LifecycleConfigs /\ configuration = "none"
       ELSE servers = <<>> /\ configuration \in StdioConfigs
    /\ call = NoCall
    /\ result = NoResult
    /\ LifecycleStart


\* ------------------------------------------------------------ the map
\* A getOrReconnectClient that connects on every call.
NeedsConnectAlways(map, n) == TRUE

\* connectedClients.get(internalName) is undefined: the reconnect branch runs.
NeedsConnect(map, n) == map[n] = NoClient

\* connectedClients.set(internalName, mcpClient), reached after connect() returned.
StoreClient(map, n, c) == [map EXCEPT ![n] = c]

\* A getOrReconnectClient that stores the client before it connects it.
MapKeepsFailedClient(map, n, c) == [map EXCEPT ![n] = c]

\* A failed connect that rolls back the clients stored so far.
MapClearedOnConnectFail(map, n, c) == [m \in Names |-> NoClient]

\* await mcpClient.connect() threw: the set that follows it is not reached.
MapAfterConnectFail(map, n, c) == map

\* connectedClients.clear()
ClearMap(map) == EmptyMap

\* The clients held in the map.
Held(map) == {map[n] : n \in Names} \ {NoClient}

\* ------------------------------------------------------------ MCPClient
\* connect(): this.connected after the try block completed.
ConnectedAfterOk == TRUE

\* connect(): this.connected set by the catch block before it rethrows.
ConnectedAfterFail == FALSE

\* disconnect(): this.connected after the underlying disconnect resolved or threw.
ConnectedAfterDisconnect(threw) == FALSE

\* disconnect(): the catch block rethrows what the underlying disconnect threw.
DisconnectThrows(threw) == threw

\* The task awaiting Promise.race on client c, if any (each client is
\* connected by the one task that constructed it).
Racing(c) == {t \in Tasks : pc[t] = "race" /\ tcli[t] = c}

\* The tasks with a connect attempt in flight for internalName n.
InFlight(n) == {t \in Tasks : pc[t] \in {"resolve", "race"} /\ tname[t] = n}

\* A connect timeout that never rejects.
TimeoutNeverSettles(c) == FALSE

\* The reject of the 30 s timer settles Promise.race when the underlying
\* connect has not settled it before.
TimeoutSettles(c) == Racing(c) # {}

\* A getOrReconnectClient that joins the connect attempt in flight for n.
JoinClientInFlight(n) ==
    IF InFlight(n) # {} THEN tcli[CHOOSE u \in InFlight(n) : TRUE] ELSE nClients + 1

\* new MCPClient(parsedConfig, logger): a client of the caller's own.
ClientToConnect(n) == nClients + 1

\* The try block that would detect a stale connection holds only comments:
\* it never throws, and the reconnect in its catch block never runs.
StaleCheckThrows(c) == FALSE

\* --------------------------------------------------------- error kinds
\* An action calls getOrReconnectClient before its try block: what
\* getAndParseServerConfig throws is an sdk.RuntimeError, what connect()
\* rethrows is the plain Error it caught; the RPC is inside the try block
\* and its failure is wrapped into an sdk.RuntimeError.
ActionErrorKind(stage) ==
    IF stage \in {"config", "rpc"} THEN "RuntimeError" ELSE "Error"

\* register wraps everything its loop body throws into an sdk.RuntimeError.
RegisterErrorKind(stage) == "RuntimeError"

ErrorKind(t, stage) ==
    IF t = Reg THEN RegisterErrorKind(stage) ELSE ActionErrorKind(stage)

\* An unregister that lets the error of a disconnect() escape.
UnregisterKindPropagates(threw) == IF threw THEN "Error" ELSE "ok"

\* unregister catches what client.disconnect() throws and goes on.
UnregisterKind(threw) == "ok"

\* ------------------------------------------------------------- actions
\* An action handler up to its first suspension: getOrReconnectClient, and
\* on a cache hit the RPC call on the cached client.  Idle handlers are
\* interchangeable, so the host takes the first one.
Invoke(t, n) ==
    /\ variant = "index3"
    /\ pc[t] = "idle"
    /\ \A u \in Procs : pc[u] = "idle" => t <= u
    /\ IF ~NeedsConnect(connectedClients, n)
       THEN /\ ~StaleCheckThrows(connectedClients[n])
            /\ pc' = [pc EXCEPT ![t] = "rpc"]
            /\ tname' = [tname EXCEPT ![t] = n]
            /\ tcli' = [tcli EXCEPT ![t] = connectedClients[n]]
            /\ UNCHANGED <<kind, why, clientVars>>
       ELSE IF GetAndParseServerConfig(servers, n) # "ok"
       THEN /\ pc' = [pc EXCEPT ![t] = "failed"]
            /\ tname' = [tname EXCEPT ![t] = n]
            /\ kind' = [kind EXCEPT ![t] = ActionErrorKind("config")]
            /\ why' = [why EXCEPT ![t] = "config"]
            /\ UNCHANGED <<tcli, clientVars>>
       ELSE /\ nClients < MaxClients
            /\ LET c == ClientToConnect(n)
               IN /\ nClients' = c
                  /\ cname' = [cname EXCEPT ![c] = n]
                  /\ sdk' = [sdk EXCEPT ![c] = "new"]
                  /\ pc' = [pc EXCEPT ![t] = "resolve"]
                  /\ tname' = [tname EXCEPT ![t] = n]
                  /\ tcli' = [tcli EXCEPT ![t] = c]
                  /\ UNCHANGED <<connected, timer, hasClose, kind, why>>
    /\ UNCHANGED <<inputVars, connectedClients, regIdx, unregVars>>

\* connect() failed in task t on client c: the catch block, and the throw
\* through getOrReconnectClient into the action or into register's catch.
ConnectFailed(t, c, stage) ==
    /\ connected' = [connected EXCEPT ![c] = ConnectedAfterFail]
    /\ connectedClients' = MapAfterConnectFail(connectedClients, tname[t], c)
    /\ pc' = [pc EXCEPT ![t] = "failed"]
    /\ kind' = [kind EXCEPT ![t] = ErrorKind(t, stage)]
    /\ why' = [why EXCEPT ![t] = stage]
    /\ tname' = [tname EXCEPT ![t] = "a"]
    /\ tcli' = [tcli EXCEPT ![t] = NoClient]
    /\ regIdx' = IF t = Reg THEN 0 ELSE regIdx

\* registryClient.findServerConfiguration returns: "ws" (a ws connection is
\* listed), "nows" (resolved, none listed) or "fail" (it threw).
ResolveReturn(t, out) ==
    /\ pc[t] = "resolve"
    /\ LET c == tcli[t]
       IN IF out = "ws"
          THEN /\ sdk' = [sdk EXCEPT ![c] = "connecting"]
               /\ timer' = [timer EXCEPT ![c] = "armed"]
               /\ pc' = [pc EXCEPT ![t] = "race"]
               /\ UNCHANGED <<connected, connectedClients, tname, tcli, kind, why, regIdx>>
          ELSE /\ ConnectFailed(t, c, IF out = "nows" THEN "nows" ELSE "resolution")
               /\ UNCHANGED <<sdk, timer>>
    /\ UNCHANGED <<inputVars, hasClose, nClients, cname, unregVars>>

\* The setTimeout of connect fires: it rejects the race when the race is
\* still pending, and is ignored when the race has been settled.
TimerFires(c) ==
    /\ timer[c] = "armed"
    /\ timer' = [timer EXCEPT ![c] = "unset"]
    /\ IF TimeoutSettles(c)
       THEN \E t \in Racing(c) : ConnectFailed(t, c, "timeout")
       ELSE UNCHANGED <<connected, connectedClients, taskVars>>
    /\ UNCHANGED <<inputVars, hasClose, nClients, cname, sdk, unregVars>>

\* The underlying client.connect(transport) rejects.
ConnectFails(c) ==
    /\ sdk[c] = "connecting"
    /\ sdk' = [sdk EXCEPT ![c] = "failed"]
    /\ IF Racing(c) # {}
       THEN \E t \in Racing(c) : ConnectFailed(t, c, "connect")
       ELSE UNCHANGED <<connected, connectedClients, taskVars>>
    /\ UNCHANGED <<inputVars, hasClose, nClients, cname, timer, unregVars>>

\* A connect whose late completion still marks the client connected.
LateCompletionConnects(flag) == TRUE

\* this.connected after the underlying connect resolved for a race the
\* timer had settled: the code after the await has been left through the
\* catch block and nothing runs.
ConnectedAfterLateCompletion(flag) == flag

\* The underlying client.connect(transport) resolves for a client connected
\* by an action (or for one whose race the timer has already settled).
ConnectCompletes(c) ==
    /\ sdk[c] = "connecting"
    /\ Reg \notin Racing(c)
    /\ sdk' = [sdk EXCEPT ![c] = "open"]
    /\ IF Racing(c) # {}
       THEN \E t \in Racing(c) :
               /\ connected' = [connected EXCEPT ![c] = ConnectedAfterOk]
               /\ connectedClients' = StoreClient(connectedClients, tname[t], c)
               /\ pc' = [pc EXCEPT ![t] = "rpc"]
       ELSE /\ connected' = [connected EXCEPT ![c] = ConnectedAfterLateCompletion(connected[c])]
            /\ UNCHANGED <<connectedClients, pc>>
    /\ UNCHANGED <<inputVars, hasClose, nClients, cname, timer, tname, tcli, kind, why, regIdx, unregVars>>

\* A handler that issues its RPC again when it failed.
PcAfterRpcRetries(out) == IF out = "ok" THEN "done" ELSE "rpc"

\* await mcpClient.<rpc>() settles: the handler returns the result, or its
\* catch block throws; neither path issues the RPC again.
PcAfterRpc(out) == IF out = "ok" THEN "done" ELSE "failed"

\* A handler that drops the cached client when its RPC failed.
MapDropsOnRpcFailure(map, n, out) ==
    IF out = "ok" THEN map ELSE [map EXCEPT ![n] = NoClient]

\* The try and catch blocks of the handlers do not touch connectedClients.
MapAfterRpc(map, n, out) == map

\* The RPC of an action returns: "ok", "error" (the server answers with an
\* error) or "lost" (the connection turns out to be gone: nothing in the
\* plugin notices a dropped connection before an RPC on it fails).  On a
\* connection that is not open the RPC can only fail.
RpcReturn(t, out) ==
    /\ pc[t] = "rpc"
    /\ LET c == tcli[t]
       IN /\ out = "ok" => sdk[c] = "open"
          /\ out = "lost" => sdk[c] \in {"open", "dropped"}
          /\ sdk' = [sdk EXCEPT ![c] = IF out = "lost" THEN "dropped" ELSE sdk[c]]
    /\ pc' = [pc EXCEPT ![t] = PcAfterRpc(out)]
    /\ kind' = [kind EXCEPT ![t] = IF out = "ok" THEN "ok" ELSE ActionErrorKind("rpc")]
    /\ why' = [why EXCEPT ![t] = IF out = "ok" THEN "none" ELSE "rpc"]
    /\ tname' = [tname EXCEPT ![t] = "a"]
    /\ tcli' = [tcli EXCEPT ![t] = NoClient]
    /\ connectedClients' = MapAfterRpc(connectedClients, tname[t], out)
    /\ UNCHANGED <<inputVars, hasClose, nClients, cname, connected, timer,
                   regIdx, unregVars>>

\* The host has the result of an action; the handler may be invoked again.
Return(t) ==
    /\ t \in Procs
    /\ pc[t] \in {"done", "failed"}
    /\ pc' = [pc EXCEPT ![t] = "idle"]
    /\ tname' = [tname EXCEPT ![t] = "a"]
    /\ kind' = [kind EXCEPT ![t] = "none"]
    /\ why' = [why EXCEPT ![t] = "none"]
    /\ UNCHANGED <<inputVars, connectedClients, clientVars, tcli, regIdx, unregVars>>

\* ------------------------------------------------------------ register
\* One pass of register's loop body up to its first suspension, for the
\* server entry at index i; past the last entry register returns.
RegNext(i) ==
    IF i > Len(servers)
    THEN [pc |-> "done", kind |-> "ok", why |-> "none", alloc |-> FALSE, name |-> "a"]
    ELSE LET n == servers[i].internalName
         IN IF GetAndParseServerConfig(servers, n) # "ok"
            THEN [pc |-> "failed", kind |-> RegisterErrorKind("config"),
                  why |-> "config", alloc |-> FALSE, name |-> "a"]
            ELSE [pc |-> "resolve", kind |-> "none", why |-> "none",
                  alloc |-> TRUE, name |-> n]

\* The task fields of register after RegNext(i).
RegGoes(i, nx) ==
    /\ nx.alloc => nClients < MaxClients
    /\ pc' = [pc EXCEPT ![Reg] = nx.pc]
    /\ kind' = [kind EXCEPT ![Reg] = nx.kind]
    /\ why' = [why EXCEPT ![Reg] = nx.why]
    /\ tname' = [tname EXCEPT ![Reg] = nx.name]
    /\ tcli' = [tcli EXCEPT ![Reg] = IF nx.alloc THEN nClients + 1 ELSE NoClient]
    /\ regIdx' = IF nx.alloc THEN i ELSE 0
    /\ nClients' = IF nx.alloc THEN nClients + 1 ELSE nClients
    /\ cname' = IF nx.alloc THEN [cname EXCEPT ![nClients + 1] = nx.name] ELSE cname

\* register is called: an empty server list returns at once.
RegisterStart ==
    /\ variant = "index3"
    /\ pc[Reg] = "idle"
    /\ LET nx == RegNext(1)
       IN /\ RegGoes(1, nx)
          /\ sdk' = IF nx.alloc THEN [sdk EXCEPT ![nClients + 1] = "new"] ELSE sdk
    /\ UNCHANGED <<inputVars, hasClose, connectedClients, connected, timer, unregVars>>

\* The underlying client.connect(transport) resolves for the client register
\* is connecting: it is stored and the loop goes on with the next entry.
ConnectCompletesRegister(c) ==
    /\ sdk[c] = "connecting"
    /\ Reg \in Racing(c)
    /\ connected' = [connected EXCEPT ![c] = ConnectedAfterOk]
    /\ connectedClients' = StoreClient(connectedClients, tname[Reg], c)
    /\ LET nx == RegNext(regIdx + 1)
       IN /\ RegGoes(regIdx + 1, nx)
          /\ sdk' = IF nx.alloc
                    THEN [sdk EXCEPT ![c] = "open", ![nClients + 1] = "new"]
                    ELSE [sdk EXCEPT ![c] = "open"]
    /\ UNCHANGED <<inputVars, hasClose, timer, unregVars>>

\* ---------------------------------------------------------- unregister
\* unregister is called: client.disconnect() is started on every client in
\* the map; one that is not connected returns at once.
UnregisterStart ==
    /\ variant = "index3"
    /\ unregPc = "idle"
    /\ LET closing == {c \in Held(connectedClients) : connected[c]}
       IN /\ unregPending' = closing
          /\ unregThrew' = FALSE
          /\ IF closing = {}
             THEN /\ connectedClients' = ClearMap(connectedClients)
                  /\ unregPc' = "done"
                  /\ unregKind' = UnregisterKind(FALSE)
             ELSE /\ unregPc' = "waiting"
                  /\ UNCHANGED <<connectedClients, unregKind>>
    /\ UNCHANGED <<inputVars, clientVars, taskVars>>

\* The underlying disconnect of client c resolves (threw = FALSE) and the
\* connection is closed, or it throws and the connection is left as it was;
\* with the last one Promise.all resolves and the map is cleared.
DisconnectReturns(c, threw) ==
    /\ unregPc = "waiting"
    /\ c \in unregPending
    /\ connected' = [connected EXCEPT ![c] = ConnectedAfterDisconnect(threw)]
    /\ sdk' = [sdk EXCEPT ![c] = IF threw THEN sdk[c] ELSE "closed"]
    /\ unregPending' = unregPending \ {c}
    /\ unregThrew' = (unregThrew \/ DisconnectThrows(threw))
    /\ IF unregPending' = {}
       THEN /\ connectedClients' = ClearMap(connectedClients)
            /\ unregPc' = "done"
            /\ unregKind' = UnregisterKind(unregThrew')
       ELSE UNCHANGED <<connectedClients, unregPc, unregKind>>
    /\ UNCHANGED <<inputVars, hasClose, nClients, cname, timer, taskVars>>

\* The host has the result of unregister.
UnregisterReturn ==
    /\ unregPc = "done"
    /\ unregPc' = "idle"
    /\ unregKind' = "none"
    /\ unregThrew' = FALSE
    /\ UNCHANGED <<inputVars, connectedClients, clientVars, taskVars, unregPending>>

\* ----------------------------------------- the per-call stdio variant
\* parseConfiguration: every way it fails is an sdk.RuntimeError.
ParseConfiguration(cfg) == IF cfg = "ok" THEN "ok" ELSE "RuntimeError"

\* How a failure of an index2 action reaches the host: parseConfiguration
\* and MCPClient.connect throw sdk.RuntimeError; the constructor's transport
\* error and a failed RPC pass through try/finally as the Error they are.
StdioErrorKind(stage) ==
    IF stage \in {"config", "connect"} THEN "RuntimeError" ELSE "Error"

\* MCPClient.disconnect of part_003: the catch block logs what close() threw.
StdioDisconnectThrows(has, closeThrew) == FALSE

\* MCPClient.disconnect of part_003 on the transport: close() is called when
\* the transport has one; without one nothing is done.
StdioTransportAfterDisconnect(state, has, closeThrew) ==
    IF has /\ ~closeThrew THEN "closed" ELSE state

\* try { ... } finally { await mcpClient.disconnect() }: an exception of the
\* finally block would replace the outcome of the try block.
FinallyKind(tryKind, disconnectThrew) ==
    IF disconnectThrew THEN "Error" ELSE tryKind

FinallyWhy(tryWhy, disconnectThrew) ==
    IF disconnectThrew THEN "disconnect" ELSE tryWhy

\* An index2 action up to its first suspension: parseConfiguration, the
\* MCPClient constructor (built: the transport constructor did not throw;
\* close: the transport has a close method) and the call of connect().
StdioInvoke(t, built, close) ==
    /\ variant = "index2"
    /\ pc[t] = "idle"
    /\ \A u \in Procs : pc[u] = "idle" => t <= u
    /\ IF ParseConfiguration(configuration) # "ok"
       THEN /\ built /\ close
            /\ pc' = [pc EXCEPT ![t] = "failed"]
            /\ kind' = [kind EXCEPT ![t] = StdioErrorKind("config")]
            /\ why' = [why EXCEPT ![t] = "config"]
            /\ UNCHANGED <<tcli, clientVars>>
       ELSE IF ~built
       THEN /\ close
            /\ pc' = [pc EXCEPT ![t] = "failed"]
            /\ kind' = [kind EXCEPT ![t] = StdioErrorKind("transport")]
            /\ why' = [why EXCEPT ![t] = "transport"]
            /\ UNCHANGED <<tcli, clientVars>>
       ELSE /\ nClients < MaxClients
            /\ LET c == nClients + 1
               IN /\ nClients' = c
                  /\ sdk' = [sdk EXCEPT ![c] = "connecting"]
                  /\ hasClose' = [hasClose EXCEPT ![c] = close]
                  /\ pc' = [pc EXCEPT ![t] = "sconnect"]
                  /\ tcli' = [tcli EXCEPT ![t] = c]
                  /\ UNCHANGED <<cname, connected, timer, kind, why>>
    /\ UNCHANGED <<inputVars, connectedClients, tname, regIdx, unregVars>>

\* The end of an index2 action: the finally block disconnects the client
\* and the outcome of the try block is returned or rethrown.
StdioFinish(t, c, tryKind, tryWhy, closeThrew) ==
    /\ closeThrew => hasClose[c]
    /\ LET threw == StdioDisconnectThrows(hasClose[c], closeThrew)
       IN /\ pc' = [pc EXCEPT ![t] =
                      IF FinallyKind(tryKind, threw) = "ok" THEN "done" ELSE "failed"]
          /\ kind' = [kind EXCEPT ![t] = FinallyKind(tryKind, threw)]
          /\ why' = [why EXCEPT ![t] = FinallyWhy(tryWhy, threw)]
    /\ sdk' = [sdk EXCEPT ![c] =
                  StdioTransportAfterDisconnect(
                      IF tryWhy = "connect" THEN "failed" ELSE "open",
                      hasClose[c], closeThrew)]
    /\ tcli' = [tcli EXCEPT ![t] = NoClient]

\* client.connect(transport) of an index2 action returns: "ok", or one of
\* the failures connect() tells apart by the error text.
StdioConnectReturns(t, out, closeThrew) ==
    /\ pc[t] = "sconnect"
    /\ IF out = "ok"
       THEN /\ ~closeThrew
            /\ sdk' = [sdk EXCEPT ![tcli[t]] = "open"]
            /\ pc' = [pc EXCEPT ![t] = "srpc"]
            /\ UNCHANGED <<tcli, kind, why>>
       ELSE StdioFinish(t, tcli[t], StdioErrorKind("connect"), "connect", closeThrew)
    /\ UNCHANGED <<inputVars, connectedClients, nClients, cname, connected, timer,
                   hasClose, tname, regIdx, unregVars>>

\* The RPC of an index2 action returns.
StdioRpcReturn(t, ok, closeThrew) ==
    /\ pc[t] = "srpc"
    /\ IF ok
       THEN StdioFinish(t, tcli[t], "ok", "none", closeThrew)
       ELSE StdioFinish(t, tcli[t], StdioErrorKind("rpc"), "rpc", closeThrew)
    /\ UNCHANGED <<inputVars, connectedClients, nClients, cname, connected, timer,
                   hasClose, tname, regIdx, unregVars>>

Next ==
    \/ \E t \in Procs, n \in Names : Invoke(t, n)
    \/ \E t \in Tasks, out \in {"ws", "nows", "fail"} : ResolveReturn(t, out)
    \/ \E c \in ClientIds : TimerFires(c)
    \/ \E c \in ClientIds : ConnectFails(c)
    \/ \E c \in ClientIds : ConnectCompletes(c)
    \/ \E t \in Procs, out \in {"ok", "error", "lost"} : RpcReturn(t, out)
    \/ \E t \in Procs : Return(t)
    \/ RegisterStart
    \/ \E c \in ClientIds : ConnectCompletesRegister(c)
    \/ UnregisterStart
    \/ \E c \in ClientIds, threw \in BOOLEAN : DisconnectReturns(c, threw)
    \/ UnregisterReturn
    \/ \E t \in Procs, built \in BOOLEAN, close \in BOOLEAN : StdioInvoke(t, built, close)
    \/ \E t \in Procs, out \in {"ok", "enoent", "closed", "other"}, closeThrew \in BOOLEAN :
          StdioConnectReturns(t, out, closeThrew)
    \/ \E t \in Procs, ok \in BOOLEAN, closeThrew \in BOOLEAN : StdioRpcReturn(t, ok, closeThrew)

Spec == Init /\ [][Next]_vars

\* The same handlers started on a configuration of any shape.
InitConfig ==
    /\ variant \in {"index3", "index2"}
    /\ IF variant = "index3"
       THEN servers \in ConfigLists /\ configuration = "none"
       ELSE servers = <<>> /\ configuration \in StdioConfigs
    /\ call = NoCall
    /\ result = NoResult
    /\ LifecycleStart

SpecConfig == InitConfig /\ [][Next]_vars

\* ================================================ functions on their own
\* The functions of the plugin whose result depends on their arguments and
\* on what the calls they await return: each is applied once to arguments
\* drawn in InitCalls, and result holds what it returned or threw.

\* The handlers are not running while a function is examined on its own.
CallStart ==
    /\ variant = "none"
    /\ servers = <<>>
    /\ configuration = "none"
    /\ result = NoResult
    /\ LifecycleStart

\* A function has returned or thrown: nothing but result changes.
Returns(r) ==
    /\ result = NoResult
    /\ result' = r
    /\ UNCHANGED <<variant, configuration, servers, call, hasClose, connectedClients,
                   nClients, cname, connected, sdk, timer, taskVars, unregVars>>

\* x is one of the parts the text msg is made of.
Contains(msg, x) == \E i \in 1..Len(msg) : msg[i] = x

\* ------------------------------------------------- the action handlers
Ops == {"listResources", "readResource", "listTools", "executeTool",
        "listPrompts", "getPrompt"}
Details == {"u1", "u2"}
ErrorTexts == {"e1", "e2"}

\* A handler that leaves the internalName out of its message.
FailureMessageNoName(op, n, d, e) == <<"Failed: ", e>>

\* The text of the sdk.RuntimeError in the catch block of handler op, for
\* internalName n, the uri, tool or prompt name d and the error text e.
FailureMessage(op, n, d, e) ==
    CASE op = "listResources" -> <<"Failed to list resources from ", n, ": ", e>>
      [] op = "readResource"  -> <<"Failed to read resource ", d, " from ", n, ": ", e>>
      [] op = "listTools"     -> <<"Failed to list tools from ", n, ": ", e>>
      [] op = "executeTool"   -> <<"Failed to execute tool \"", d, "\" on ", n, ": ", e>>
      [] op = "listPrompts"   -> <<"Failed to list prompts from ", n, ": ", e>>
      [] op = "getPrompt"     -> <<"Failed to get prompt \"", d, "\" from ", n, ": ", e>>

\* index.ts executeTool: JSON.parse(stringParameters) stands before the try
\* block; the other handlers and index3.ts take no JSON text.
ParametersThrow(c) ==
    c.file = "index" /\ c.op = "executeTool" /\ c.parameters = "invalid"

\* A handler that calls the RPC without looking whether it has a client.
RpcIssuedWithoutClient(c) == ~ParametersThrow(c)

\* The RPC is issued: index.ts calls it through ?. and skips it when the
\* cache has no client for the internalName.
RpcIssued(c) == ~ParametersThrow(c) /\ c.client = "present"

\* What a handler returns when nothing threw: the answer of the RPC, or,
\* when mcpClient?.rpc() was skipped and gave undefined, an empty list
\* (result?.resources ?? [], and the like) or undefined itself.
ReturnValue(c) ==
    IF RpcIssued(c) THEN "answer"
    ELSE IF c.op \in {"listResources", "listTools", "listPrompts"} THEN "emptyList"
    ELSE "undefined"

\* A handler of index3.ts (from the client getOrReconnectClient returned)
\* or of index.ts (from clientCache.get).
ActionHandler(c) ==
    IF ParametersThrow(c)
    THEN [status |-> "Error", message |-> <<"SyntaxError">>,
          rpcs |-> 0, value |-> "none"]
    ELSE IF RpcIssued(c) /\ c.rpc = "throws"
    THEN [status |-> "RuntimeError",
          message |-> FailureMessage(c.op, c.internalName, c.detail, c.error),
          rpcs |-> 1, value |-> "none"]
    ELSE [status |-> "ok", message |-> <<>>,
          rpcs |-> IF RpcIssued(c) THEN 1 ELSE 0, value |-> ReturnValue(c)]

ActionCalls ==
    {c \in [fn : {"action"}, file : {"index3", "index"}, op : Ops,
            internalName : Names, detail : Details,
            client : {"present", "absent"}, parameters : {"absent", "valid", "invalid"},
            rpc : {"ok", "throws"}, error : ErrorTexts] :
        /\ c.file = "index3" => c.client = "present"
        /\ (c.file = "index3" \/ c.op # "executeTool") => c.parameters = "absent"
        /\ c.rpc = "ok" => c.error = "e1"}

RunActionHandler ==
    /\ call.fn = "action"
    /\ Returns(ActionHandler(call))

\* ------------------------------------------- register, up to its connect
\* An entry without internalName: the field is undefined.
NoName == "undefined"

\* The entries register is applied to: with or without a name, each field
\* present or not, each kind of JSON text.
RegisterEntries ==
    {ServerEntry(n, key, qn, json) :
        n \in {"a", NoName}, key \in BOOLEAN, qn \in BOOLEAN, json \in JsonKinds}

\* register of part_002 wants configuration.smitheryApiKey first; the other
\* two files do not read it.
RegisterCalls ==
    {c \in [fn : {"register"}, file : {"index3", "index", "part_002"},
            apiKey : BOOLEAN, hasServers : BOOLEAN,
            servers : SeqsUpTo(RegisterEntries, MaxConfigEntries)] :
        /\ c.file # "part_002" => c.apiKey
        /\ ~c.hasServers => c.servers = <<>>}

\* A register of index3.ts that refuses an empty server list.
EmptyListRejected(srv) == [status |-> "RuntimeError", why |-> "noServers", connects |-> 0]

\* index3.ts register with servers ?? [] of length 0: a warning and return.
EmptyListIndex3(srv) == [status |-> "ok", why |-> "none", connects |-> 0]

\* index3.ts register up to the connect of its first entry: the entry is
\* looked up by its own internalName, and what getAndParseServerConfig
\* throws is wrapped by the catch block of the loop.
RegisterIndex3(srv) ==
    IF Len(srv) = 0 THEN EmptyListIndex3(srv)
    ELSE LET r == GetAndParseServerConfig(srv, srv[1].internalName)
         IN IF r # "ok"
            THEN [status |-> "RuntimeError", why |-> r, connects |-> 0]
            ELSE [status |-> "connecting", why |-> "none", connects |-> 1]

\* index.ts register up to the connect of its first entry: servers || [],
\* the map over the entries (internalName and qualifiedName required, the
\* JSON text defaults to "{}"), then JSON.parse inside the try block.
RegisterIndex(srv) ==
    IF Len(srv) = 0
    THEN [status |-> "RuntimeError", why |-> "noServers", connects |-> 0]
    ELSE IF srv[1].internalName = NoName \/ ~srv[1].smitheryQualifiedName
    THEN [status |-> "RuntimeError", why |-> "incomplete", connects |-> 0]
    ELSE IF srv[1].smitheryServerConfigJson = "invalid"
    THEN [status |-> "RuntimeError", why |-> "badJson", connects |-> 0]
    ELSE [status |-> "connecting", why |-> "none", connects |-> 1]

\* part_002 register up to the connect of its first entry: the JSON text is
\* handed to createTransport as it is, never parsed.
RegisterPart002(key, srv) ==
    IF ~key
    THEN [status |-> "RuntimeError", why |-> "noApiKey", connects |-> 0]
    ELSE IF Len(srv) = 0
    THEN [status |-> "RuntimeError", why |-> "noServers", connects |-> 0]
    ELSE IF srv[1].internalName = NoName \/ ~srv[1].smitheryQualifiedName
    THEN [status |-> "RuntimeError", why |-> "incomplete", connects |-> 0]
    ELSE [status |-> "connecting", why |-> "none", connects |-> 1]

Register(c) ==
    CASE c.file = "index3" -> RegisterIndex3(c.servers)
      [] c.file = "index" -> RegisterIndex(c.servers)
      [] c.file = "part_002" -> RegisterPart002(c.apiKey, c.servers)

RunRegister ==
    /\ call.fn = "register"
    /\ Returns(Register(call))

\* ------------------------------ the constructor of the stdio/sse MCPClient
\* A text is the sequence of its characters.
Space == " "
Tab == "\t"
Quote == "\""
Chars == {"x", Space, Tab}

\* The texts config.args is drawn from: none of them is valid JSON.
Texts == SeqsUpTo(Chars, MaxText)

\* The elements of an args array: strings, one of them with a space in it.
Elements == {<<"x">>, <<"y">>, <<"x", Space, "y">>}
ElementLists == SeqsUpTo(Elements, MaxArgs)

\* The texts of s in order, one after the other.
RECURSIVE Concat(_)
Concat(s) == IF s = <<>> THEN <<>> ELSE Head(s) \o Concat(Tail(s))

\* JSON.stringify of an array of strings that need no escaping.
RECURSIVE JsonItems(_)
JsonItems(elems) ==
    IF elems = <<>> THEN <<>>
    ELSE <<Quote>> \o Head(elems) \o <<Quote>>
         \o (IF Len(elems) > 1 THEN <<",">> ELSE <<>>) \o JsonItems(Tail(elems))

JsonStringify(elems) == <<"[">> \o JsonItems(elems) \o <<"]">>

\* JSON.parse of a text, as far as the constructor tells its outcomes
\* apart: an array of strings, or anything else (an exception included).
NotAnArray == [array |-> FALSE, elems |-> <<>>]

RECURSIVE ParseItems(_, _, _)
ParseItems(text, i, acc) ==
    IF i > Len(text) \/ text[i] # Quote THEN NotAnArray
    ELSE LET closing == {j \in (i + 1)..Len(text) : text[j] = Quote}
         IN IF closing = {} THEN NotAnArray
            ELSE LET j == CHOOSE k \in closing : \A m \in closing : k <= m
                     item == SubSeq(text, i + 1, j - 1)
                 IN IF \E k \in 1..Len(item) : item[k] = Tab THEN NotAnArray
                    ELSE IF j + 1 = Len(text) /\ text[j + 1] = "]"
                    THEN [array |-> TRUE, elems |-> Append(acc, item)]
                    ELSE IF j + 1 < Len(text) /\ text[j + 1] = ","
                    THEN ParseItems(text, j + 2, Append(acc, item))
                    ELSE NotAnArray

JsonParse(text) ==
    IF text = <<"[", "]">> THEN [array |-> TRUE, elems |-> <<>>]
    ELSE IF Len(text) < 2 \/ text[1] # "[" THEN NotAnArray
    ELSE ParseItems(text, 2, <<>>)

\* text.split(sep).filter(Boolean) for a one-character separator in seps:
\* the maximal runs of other characters, in order.
RECURSIVE SplitOn(_, _, _)
SplitOn(text, seps, cur) ==
    IF text = <<>> THEN (IF cur = <<>> THEN <<>> ELSE <<cur>>)
    ELSE IF Head(text) \in seps
    THEN (IF cur = <<>> THEN <<>> ELSE <<cur>>) \o SplitOn(Tail(text), seps, <<>>)
    ELSE SplitOn(Tail(text), seps, Append(cur, Head(text)))

\* config.args as it arrives: absent, an array, or a string.
ArgsAbsent == [form |-> "absent", elems |-> <<>>, text |-> <<>>]
ArgsInputs ==
    {ArgsAbsent}
    \cup {[form |-> "array", elems |-> e, text |-> <<>>] : e \in ElementLists}
    \cup {[form |-> "string", elems |-> <<>>, text |-> t] : t \in Texts}
    \cup {[form |-> "string", elems |-> <<>>, text |-> JsonStringify(e)] : e \in ElementLists}

\* config.args.split(' ')
Separators == {Space}

\* An argument parser that never tries JSON.
ParseArgsNoJson(a) ==
    IF a.form = "array" THEN a.elems
    ELSE IF a.form = "string" THEN SplitOn(a.text, Separators, <<>>)
    ELSE <<>>

\* Argument parsing: an array as it is (its elements through String), a
\* string through JSON.parse when that gives an array, any other string
\* split on spaces without the empty tokens.
ParseArgs(a) ==
    IF a.form = "array" THEN a.elems
    ELSE IF a.form = "string"
    THEN LET parsed == JsonParse(a.text)
         IN IF parsed.array THEN parsed.elems
            ELSE SplitOn(a.text, Separators, <<>>)
    ELSE <<>>

\* The names and values of environment variables; Unset: not defined.
VarNames == {"FOO", "BAR"}
Unset == "undefined"
EnvValues == {Unset, "", "1", "2"}
Environments == [VarNames -> EnvValues]
NoEnvironment == [N \in VarNames |-> Unset]

\* !v is false: v is defined and not the empty string.
Truthy(v) == v \notin {Unset, ""}

\* if (!env[envName]) is not taken: the configuration has set the variable.
ConfigSets(v) == Truthy(v)

\* env after the configured variables have been copied: an object, or a
\* string that parses to one, gives its keys; anything else gives nothing.
EnvFromConfig(form, cfg) ==
    IF form \in {"object", "json"} THEN cfg ELSE NoEnvironment

\* The loop over process.env: MCP_N, when it has a value, becomes N unless
\* the configuration has set N.
MergeEnv(cfg, proc) ==
    [N \in VarNames |->
        IF Truthy(proc[N]) /\ ~ConfigSets(cfg[N]) THEN proc[N] ELSE cfg[N]]

\* A constructor that takes an empty command for a command.
CommandMissingOnlyAbsent(cmd) == cmd = "absent"

\* !config.command
CommandMissing(cmd) == cmd \in {"absent", "empty"}

\* !config.sseUrl
SseUrlMissing(url) == url \in {"absent", "empty"}

Refused(errorKind, reason) ==
    [status |-> errorKind, why |-> reason, transport |-> "none", client |-> FALSE,
     env |-> NoEnvironment, args |-> <<>>]

\* new MCPClient(config, logger) of part_003: the transport for the
\* connection type, then the SDK client.  c.built: the StdioClientTransport
\* constructor did not throw.
Constructor(c) ==
    IF c.connectionType = "sse"
    THEN IF SseUrlMissing(c.sseUrl) THEN Refused("Error", "noSseUrl")
         ELSE IF c.sseUrl = "invalid" THEN Refused("Error", "badUrl")
         ELSE [status |-> "ok", why |-> "none", transport |-> "sse", client |-> TRUE,
               env |-> NoEnvironment, args |-> <<>>]
    ELSE IF CommandMissing(c.command) THEN Refused("RuntimeError", "noCommand")
    ELSE IF ~c.built THEN Refused("Error", "transport")
    ELSE [status |-> "ok", why |-> "none", transport |-> "stdio", client |-> TRUE,
          env |-> MergeEnv(EnvFromConfig(c.envForm, c.environments), c.processEnv),
          args |-> ParseArgs(c.args)]

\* The constructor is applied to every connection type and target, to
\* every configured and process environment, and to every args input.
ConstructorCalls ==
    {c \in [fn : {"constructor"}, connectionType : {"sse", "stdio", "other"},
            sseUrl : {"absent", "empty", "invalid", "url"},
            command : {"absent", "empty", "cmd"}, built : BOOLEAN,
            envForm : {"absent"}, environments : {NoEnvironment},
            processEnv : {NoEnvironment}, args : {ArgsAbsent}] :
        c.connectionType = "sse" => c.built}
    \cup [fn : {"constructor"}, connectionType : {"stdio"}, sseUrl : {"absent"},
          command : {"cmd"}, built : {TRUE},
          envForm : {"object", "json"}, environments : Environments,
          processEnv : Environments, args : {ArgsAbsent}]
    \cup [fn : {"constructor"}, connectionType : {"stdio"}, sseUrl : {"absent"},
          command : {"cmd"}, built : {TRUE},
          envForm : {"invalidText", "absent"}, environments : {NoEnvironment},
          processEnv : Environments, args : {ArgsAbsent}]
    \cup [fn : {"constructor"}, connectionType : {"stdio"}, sseUrl : {"absent"},
          command : {"cmd"}, built : {TRUE},
          envForm : {"absent"}, environments : {NoEnvironment},
          processEnv : {NoEnvironment}, args : ArgsInputs]

RunConstructor ==
    /\ call.fn = "constructor"
    /\ Returns(Constructor(call))

\* -------------------------- connect of the registry-resolving MCPClient
\* serverInfo.connections: each has a type and may have a url.
Connections == [type : {"ws", "http", "stdio"}, url : {"none", "u1", "u2"}]
ConnectionLists == SeqsUpTo(Connections, MaxConnections)
ApiKeys == {"k1", "k2"}

\* A connect that takes the first connection listed, whatever its type.
FirstConnection(conns) == IF conns = <<>> THEN 0 ELSE 1

\* serverInfo.connections.find(conn => conn.type === 'ws'): the index of
\* the first ws connection, 0 when there is none.
FindWs(conns) ==
    LET ws == {i \in 1..Len(conns) : conns[i].type = "ws"}
    IN IF ws = {} THEN 0 ELSE CHOOSE i \in ws : \A j \in ws : i <= j

NoTransport == [built |-> FALSE, type |-> "none", url |-> <<>>, authorization |-> <<>>]

\* connect() from the return of findServerConfiguration to the call of
\* client.connect(transport): the ws connection is looked up, the URL is
\* its url or deploymentUrl + "/ws", the transport carries the API key.
SelectTransport(c) ==
    LET i == FindWs(c.connections)
    IN IF i = 0
       THEN [status |-> "Error", why |-> "nows", transport |-> NoTransport,
             connectIssued |-> FALSE, connected |-> ConnectedAfterFail]
       ELSE [status |-> "connecting", why |-> "none",
             transport |->
                [built |-> TRUE, type |-> c.connections[i].type,
                 url |-> IF c.connections[i].url # "none"
                         THEN <<c.connections[i].url>>
                         ELSE <<"deploymentUrl", "/ws">>,
                 authorization |-> <<"Bearer ", c.apiKey>>],
             connectIssued |-> TRUE, connected |-> FALSE]

SelectTransportCalls ==
    [fn : {"connect"}, apiKey : ApiKeys, connections : ConnectionLists]

RunSelectTransport ==
    /\ call.fn = "connect"
    /\ Returns(SelectTransport(call))

\* ------------------------------------------------ findServerConfiguration
\* A qualified name: with or without "@", with or without a "/".
QualifiedNames ==
    [at : BOOLEAN, slash : {TRUE}, owner : {"o"}, repo : {"r"}]
    \cup [at : {FALSE}, slash : {FALSE}, owner : {"o"}, repo : {""}]

\* What the search returns: the qualified names of the servers found.
ResultNames == {"@o/r", "@p/q"}
ResultLists == SeqsUpTo(ResultNames, MaxResults)

\* The q parameter of the search request.
SearchQuery(qn) ==
    IF qn.slash
    THEN <<"owner:", qn.owner, " repo:", qn.repo, " is:deployed">>
    ELSE <<qn.owner>>

\* A fallback that resolves the last server of the search result.
LastResult(list) == list[Len(list)]

\* searchResults.servers[0]
FirstResult(list) == list[1]

\* findServerConfiguration against a registry in which the direct lookup
\* succeeds or not (c.direct), the search throws (c.searchThrows) or
\* returns c.found, and the lookup of a search result succeeds or not
\* (c.second).  requests: the registry requests made, in order.
FindServerConfiguration(c) ==
    IF c.direct
    THEN [status |-> "ok", why |-> "none", info |-> <<"direct">>,
          requests |-> <<"getServer">>, query |-> <<>>]
    ELSE IF c.searchThrows
    THEN [status |-> "Error", why |-> "listServers", info |-> <<>>,
          requests |-> <<"getServer", "listServers">>,
          query |-> SearchQuery(c.qualifiedName)]
    ELSE IF Len(c.found) = 0
    THEN [status |-> "Error", why |-> "notFound", info |-> <<>>,
          requests |-> <<"getServer", "listServers">>,
          query |-> SearchQuery(c.qualifiedName)]
    ELSE IF ~c.second
    THEN [status |-> "Error", why |-> "getServer", info |-> <<>>,
          requests |-> <<"getServer", "listServers", "getServer">>,
          query |-> SearchQuery(c.qualifiedName)]
    ELSE [status |-> "ok", why |-> "none", info |-> <<FirstResult(c.found)>>,
          requests |-> <<"getServer", "listServers", "getServer">>,
          query |-> SearchQuery(c.qualifiedName)]

FindServerCalls ==
    {c \in [fn : {"findServerConfiguration"}, qualifiedName : QualifiedNames,
            direct : BOOLEAN, searchThrows : BOOLEAN, found : ResultLists,
            second : BOOLEAN] :
        c.searchThrows => c.found = <<>>}

RunFindServerConfiguration ==
    /\ call.fn = "findServerConfiguration"
    /\ Returns(FindServerConfiguration(call))

\* ------------------------------------- connect of the stdio/sse MCPClient
\* The text of the error client.connect(transport) rejects with, as the
\* words includes() looks for in it and one it does not look for.
ErrorWords == {"ENOENT", "closed", "exit code", "refused"}
ConnectErrors == SeqsUpTo(ErrorWords, MaxText) \ {<<>>}

\* errorMessage.includes(word)
Includes(text, word) == \E i \in 1..Len(text) : text[i] = word

\* The command the configuration names.
Commands == {"missing-binary", "npx"}

\* What getCommandInfo returns; it catches whatever it runs into.
CommandInfos == {"", "Available commands found: node"}

\* commandAttempted: the options.command of a StdioClientTransport when the
\* transport object has an options field, undefined when it has none, and
\* a fixed text for a transport that is not a StdioClientTransport.
CommandAttempted(c) ==
    IF c.transport = "stdio"
    THEN IF c.hasOptions THEN c.command ELSE "undefined"
    ELSE "N/A (not STDIO)"

\* The branch of the catch block of connect() the error text selects.
ConnectFailureClass(text) ==
    IF Includes(text, "ENOENT") THEN "notFound"
    ELSE IF Includes(text, "closed") \/ Includes(text, "exit code") THEN "closed"
    ELSE "generic"

\* The text of the sdk.RuntimeError connect() throws.
ConnectFailureMessage(c) ==
    CASE ConnectFailureClass(c.error) = "notFound" ->
            <<"Connection failed: Command '", CommandAttempted(c), "' not found. ",
              c.commandInfo>>
      [] ConnectFailureClass(c.error) = "closed" ->
            <<"MCP server connection failed or closed unexpectedly. ",
              "Original error: ">> \o c.error
      [] ConnectFailureClass(c.error) = "generic" ->
            <<"Failed to connect to MCP server: ">> \o c.error

\* connect() of part_003 from the await of client.connect(transport).
StdioConnect(c) ==
    IF c.outcome = "resolves"
    THEN [status |-> "ok", class |-> "none", message |-> <<>>]
    ELSE [status |-> "RuntimeError", class |-> ConnectFailureClass(c.error),
          message |-> ConnectFailureMessage(c)]

StdioConnectCalls ==
    {c \in [fn : {"stdioConnect"}, transport : {"stdio", "sse"}, hasOptions : BOOLEAN,
            command : Commands, commandInfo : CommandInfos,
            outcome : {"resolves", "rejects"}, error : ConnectErrors] :
        /\ c.transport = "sse" => ~c.hasOptions
        /\ c.outcome = "resolves" => c.error = <<"refused">>}

RunStdioConnect ==
    /\ call.fn = "stdioConnect"
    /\ Returns(StdioConnect(call))

\* ------------------------------------------------------------- listTools
\* A field the server left out of a tool.
Absent == "<absent>"

\* The tools of a listTools answer: name, description and inputSchema each
\* given or left out; a description can be the empty text.
RawTools == [name : {"t1", "t2", Absent}, description : {"d1", "", Absent},
             inputSchema : {"s1", Absent}]
RawToolLists == SeqsUpTo(RawTools, MaxTools)

\* `${v}` in a template literal: undefined reads "undefined".
TemplateText(v) == IF v = Absent THEN "undefined" ELSE v

\* v ?? d
OrElse(v, d) == IF v = Absent THEN d ELSE v

\* v || d for a text v given as the sequence of its parts: undefined and
\* the empty text are both falsy.
OrDefault(v, d) == IF v = <<Absent>> \/ v = <<"">> THEN d ELSE v

\* The callback of tools.map in listTools of index3.ts and index.ts (the
\* same text) and of index2.ts.  A description is the sequence of the parts
\* of its text; schema "keys" is Object.keys of inputSchema.properties.
ProjectTool(file, tool) ==
    IF file \in {"index3", "index"}
    THEN [name |-> OrElse(tool.name, "Unnamed Tool"),
          description |->
             OrDefault(<<tool.description>>,
                       <<"Execute the ", TemplateText(OrElse(tool.name, "?")), " tool">>),
          schema |-> tool.inputSchema]
    ELSE [name |-> tool.name,
          description |->
             OrDefault(<<tool.description>>,
                       <<"Execute the ", TemplateText(tool.name), " tool">>),
          schema |-> IF tool.inputSchema = Absent THEN "[]" ELSE "keys"]

\* listTools from the answer of the RPC: rawToolsResult?.tools ?? [] in
\* index3.ts and index.ts; index2.ts also takes an answer that is the array
\* itself.
ListTools(c) ==
    LET tools == IF c.shape = "bare" /\ c.file # "index2" THEN <<>> ELSE c.tools
    IN [status |-> "ok", tools |-> [i \in 1..Len(tools) |-> ProjectTool(c.file, tools[i])]]

ListToolsCalls ==
    {c \in [fn : {"listTools"}, file : {"index3", "index", "index2"},
            shape : {"tools", "bare"}, tools : RawToolLists] :
        c.shape = "bare" => c.file = "index2"}

RunListTools ==
    /\ call.fn = "listTools"
    /\ Returns(ListTools(call))

\* ------------------------------- the SSE headers of the stdio/sse MCPClient
Colon == ":"
Newline == "\n"
HeaderChars == {"a", Colon, Space, Newline}

\* config.headers: absent, or a text (the empty text is falsy as well).
HeaderTexts == SeqsUpTo(HeaderChars, MaxHeaderText)

\* text.split(sep) for a one-character separator: every piece between two
\* separators, the empty ones included.
RECURSIVE Split(_, _, _)
Split(text, sep, cur) ==
    IF text = <<>> THEN <<cur>>
    ELSE IF Head(text) = sep THEN <<cur>> \o Split(Tail(text), sep, <<>>)
    ELSE Split(Tail(text), sep, Append(cur, Head(text)))

\* line.split(':', limit): the first limit pieces of the split; what
\* follows them is dropped.
SplitLimit(line, limit) ==
    LET pieces == Split(line, Colon, <<>>)
    IN IF Len(pieces) <= limit THEN pieces ELSE SubSeq(pieces, 1, limit)

\* text.trim(), for the white space of HeaderChars.
RECURSIVE TrimStart(_)
TrimStart(text) ==
    IF text # <<>> /\ Head(text) \in {Space, Newline} THEN TrimStart(Tail(text)) ELSE text

RECURSIVE TrimEnd(_)
TrimEnd(text) ==
    IF text # <<>> /\ text[Len(text)] \in {Space, Newline}
    THEN TrimEnd(SubSeq(text, 1, Len(text) - 1)) ELSE text

Trim(text) == TrimEnd(TrimStart(text))

\* The loop over the header lines: headers[name.trim()] = value.trim() for
\* every line with a non-empty name and a non-empty value, a later line
\* replacing an earlier one of the same name.  The headers object is the
\* set of its [name, value] entries.
RECURSIVE HeadersOf(_, _)
HeadersOf(lines, headers) ==
    IF lines = <<>> THEN headers
    ELSE LET parts == SplitLimit(Head(lines), 2)
         IN IF Len(parts) >= 2 /\ parts[1] # <<>> /\ parts[2] # <<>>
            THEN HeadersOf(Tail(lines),
                    {h \in headers : h.name # Trim(parts[1])}
                    \cup {[name |-> Trim(parts[1]), value |-> Trim(parts[2])]})
            ELSE HeadersOf(Tail(lines), headers)

\* if (config.headers) { ... }: nothing is parsed from an absent or empty text.
ParseHeaders(c) ==
    IF ~c.hasHeaders \/ c.headers = <<>> THEN {}
    ELSE HeadersOf(Split(c.headers, Newline, <<>>), {})

\* The sse branch of the constructor from the parse of the headers to the
\* SSEClientTransport: one headers object, handed over twice.
SseTransport(c) ==
    LET headers == ParseHeaders(c)
    IN [status |-> "ok", eventSourceHeaders |-> headers, requestHeaders |-> headers]

SseHeaderCalls ==
    {c \in [fn : {"sseHeaders"}, hasHeaders : BOOLEAN, headers : HeaderTexts] :
        ~c.hasHeaders => c.headers = <<>>}

RunSseTransport ==
    /\ call.fn = "sseHeaders"
    /\ Returns(SseTransport(call))

\* ------------------- connect and disconnect of the registry-resolving MCPClient
\* One call of connect() or disconnect() on a client whose connected flag
\* is c.connected.  What the awaited calls do is drawn with the call:
\* c.resolve (findServerConfiguration: a ws connection listed, none listed,
\* or it throws), c.race (the underlying connect resolves, rejects, or the
\* timer wins) and c.close (the underlying disconnect resolves or throws).
MethodCalls ==
    {c \in [fn : {"clientMethod"}, method : {"connect", "disconnect"},
            connected : BOOLEAN, resolve : {"ws", "nows", "fail"},
            race : {"resolves", "rejects", "timeout"}, close : {"resolves", "throws"}] :
        /\ c.method = "connect" => c.close = "resolves"
        /\ c.method = "disconnect" => (c.resolve = "ws" /\ c.race = "resolves")
        /\ c.resolve # "ws" => c.race = "resolves"}

\* A connect() without the check of the flag.
ConnectAlwaysRuns(c) == FALSE

\* if (this.connected) return;
ConnectReturnsAtOnce(c) == c.connected

\* if (!this.connected) return;
DisconnectReturnsAtOnce(c) == ~c.connected

\* What the call did: the registry lookups, transports built, underlying
\* connects and underlying disconnects it made, and the flag it left.
Did(status, flag, lookups, transports, connects, disconnects) ==
    [status |-> status, connected |-> flag, lookups |-> lookups,
     transports |-> transports, connects |-> connects, disconnects |-> disconnects]

ClientConnect(c) ==
    IF ConnectReturnsAtOnce(c) THEN Did("ok", c.connected, 0, 0, 0, 0)
    ELSE IF c.resolve = "fail" THEN Did("Error", ConnectedAfterFail, 1, 0, 0, 0)
    ELSE IF c.resolve = "nows" THEN Did("Error", ConnectedAfterFail, 1, 0, 0, 0)
    ELSE IF c.race # "resolves" THEN Did("Error", ConnectedAfterFail, 1, 1, 1, 0)
    ELSE Did("ok", ConnectedAfterOk, 1, 1, 1, 0)

ClientDisconnect(c) ==
    IF DisconnectReturnsAtOnce(c) THEN Did("ok", c.connected, 0, 0, 0, 0)
    ELSE IF DisconnectThrows(c.close = "throws")
    THEN Did("Error", ConnectedAfterDisconnect(TRUE), 0, 0, 0, 1)
    ELSE Did("ok", ConnectedAfterDisconnect(FALSE), 0, 0, 0, 1)

ClientMethod(c) ==
    IF c.method = "connect" THEN ClientConnect(c) ELSE ClientDisconnect(c)

RunClientMethod ==
    /\ call.fn = "clientMethod"
    /\ Returns(ClientMethod(call))

\* ---------------------------------------------------------------------
InitCalls ==
    /\ call \in ActionCalls \cup RegisterCalls \cup ConstructorCalls
                \cup SelectTransportCalls \cup FindServerCalls
                \cup StdioConnectCalls
                \cup ListToolsCalls
                \cup SseHeaderCalls
                \cup MethodCalls
    /\ CallStart

NextCalls ==
    \/ RunActionHandler
    \/ RunRegister
    \/ RunConstructor
    \/ RunSelectTransport
    \/ RunFindServerConfiguration
    \/ RunStdioConnect
    \/ RunListTools
    \/ RunSseTransport
    \/ RunClientMethod

SpecCalls == InitCalls /\ [][NextCalls]_vars

\* ======================================================== properties
\* The underlying connection of client c is up: it was opened and has not
\* been closed (a dropped connection is not live).
Live(c) == connected[c] /\ sdk[c] = "open"

\* C1: every client held in the connectedClients map is fully connected:
\* its connect() completed and it has not been disconnected since.
C1_HeldClientsConnected ==
    \A c \in Held(connectedClients) : connected[c]

\* C2: at most one live client per internalName: a connected client whose
\* connection is open is the one stored in the map under its internalName.
C2_OneLiveClientPerName ==
    \A c \in 1..nClients : Live(c) => connectedClients[cname[c]] = c

\* C3: a getOrReconnectClient call that finds no entry changes the map only
\* when its connect succeeded, and then it stores the client it has just
\* connected under its internalName; every other step of the call, its
\* failure for any reason included, leaves the map as it was.
C3_MissStoresOnlyOnSuccess ==
    [][\A t \in Procs :
          /\ (pc[t] = "race" /\ pc'[t] = "rpc") =>
                /\ connectedClients' = [connectedClients EXCEPT ![tname[t]] = tcli[t]]
                /\ tcli[t] \notin Held(connectedClients)
                /\ connected'[tcli[t]]
          /\ (pc'[t] # pc[t] /\ ~(pc[t] = "race" /\ pc'[t] = "rpc")) =>
                connectedClients' = connectedClients
          /\ (pc[t] \in {"resolve", "race"} /\ pc'[t] = "failed") =>
                /\ tcli[t] \notin Held(connectedClients')
                /\ ~connected'[tcli[t]]]_vars

C3_Witness ==
    \E t \in Procs : pc[t] = "failed" /\ why[t] = "connect"
                     /\ \E u \in Procs : pc[u] = "rpc" /\ connectedClients[tname[u]] = tcli[u]

\* C4: when the 30 s timer fires while the race is pending, the attempt
\* fails with the timeout error, the client's connected flag is false and
\* neither that client nor anything else is stored in the map.
C4_TimeoutFailsAndStoresNothing ==
    [][\A c \in ClientIds : \A t \in Tasks :
          (timer[c] = "armed" /\ timer'[c] = "unset" /\ pc[t] = "race" /\ tcli[t] = c) =>
              /\ pc'[t] = "failed"
              /\ why'[t] = "timeout"
              /\ ~connected'[c]
              /\ connectedClients' = connectedClients
              /\ c \notin Held(connectedClients')]_vars

C4_Witness ==
    \E t \in Procs : pc[t] = "failed" /\ why[t] = "timeout" /\ connectedClients[tname[t]] = NoClient

\* C5: connect attempts are not deduplicated: every task with a connect
\* attempt in flight has constructed a client of its own, which no other
\* task holds; two tasks can be in flight for one internalName at once.
C5_IndependentAttempts ==
    /\ \A t \in Tasks : pc[t] \in {"resolve", "race"} =>
          /\ tcli[t] \in 1..nClients
          /\ cname[tcli[t]] = tname[t]
          /\ ~connected[tcli[t]]
    /\ \A t, u \in Tasks :
          (t # u /\ pc[t] \in {"resolve", "race"} /\ pc[u] \in {"resolve", "race"})
              => tcli[t] # tcli[u]

C5_Witness ==
    \E t, u \in Procs :
        /\ t # u
        /\ tname[t] = tname[u]
        /\ pc[t] = "race" /\ pc[u] = "race"
        /\ tcli[t] # tcli[u]
        /\ sdk[tcli[t]] = "connecting" /\ sdk[tcli[u]] = "connecting"
        /\ connectedClients[tname[t]] = NoClient

\* C6: once an RPC on the cached client has failed because its connection
\* is gone, no later invocation is handed that client again.
C6_StaleClientNotReused ==
    [][\A t \in Procs :
          (pc[t] = "idle" /\ pc'[t] = "rpc") => sdk[tcli'[t]] # "dropped"]_vars

\* C7: once a client has been disconnected, getOrReconnectClient does not
\* return it: what it returns is a connected client.
C7_DisconnectedClientNotReturned ==
    [][\A t \in Procs : (pc[t] # "rpc" /\ pc'[t] = "rpc") => connected'[tcli'[t]]]_vars

\* C8: an invocation for an internalName that has an entry is a cache hit:
\* it goes straight to the RPC on the cached client, constructs no client,
\* starts no registry lookup, no transport and no connect, and neither it
\* nor the return of its RPC changes the map; a connect is started only
\* for an internalName that has no entry.
C8_CacheHit ==
    [][\A t \in Procs :
          /\ (pc[t] = "idle" /\ pc'[t] # "idle"
                /\ connectedClients[tname'[t]] # NoClient) =>
                /\ pc'[t] = "rpc"
                /\ tcli'[t] = connectedClients[tname'[t]]
                /\ connectedClients' = connectedClients
                /\ nClients' = nClients
                /\ sdk' = sdk /\ timer' = timer /\ connected' = connected
          /\ (pc[t] = "rpc" /\ pc'[t] # "rpc") => connectedClients' = connectedClients]_vars

C8_Witness ==
    \E t \in Procs :
        /\ pc[t] = "rpc"
        /\ pc[Reg] = "done"
        /\ connectedClients[tname[t]] = tcli[t]
        /\ nClients = 1
        /\ \A u \in Procs \ {t} : pc[u] = "done"

\* C9 as stated: no disconnect() ever throws, whichever client runs it; a
\* transport without close makes it a no-op; and when unregister ends the
\* map is empty.
C9_DisconnectNeverThrows ==
    [][/\ ~unregThrew'
       /\ \A t \in Tasks : why'[t] # "disconnect"
       /\ \A t \in Procs :
             (pc[t] = "srpc" /\ pc'[t] # "srpc" /\ ~hasClose[tcli[t]]) =>
                 sdk'[tcli[t]] = sdk[tcli[t]]
       /\ (unregPc # "done" /\ unregPc' = "done") =>
             connectedClients' = EmptyMap]_vars

\* C9 amended: teardown never lets a close failure reach the host and always
\* clears the map.  unregister ends without an error and with an empty map
\* also when a disconnect() it awaited threw; the disconnect() of the stdio
\* client never throws and leaves a transport without close untouched; the
\* disconnect() of the registry-resolving client leaves the client marked
\* not connected, whether the underlying disconnect resolved or threw.
C9_TeardownSwallowsCloseFailures ==
    [][/\ (unregPc # "done" /\ unregPc' = "done") =>
             /\ connectedClients' = EmptyMap
             /\ unregKind' = "ok"
       /\ \A c \in ClientIds :
             (c \in unregPending /\ c \notin unregPending') => ~connected'[c]
       /\ \A t \in Tasks : why'[t] # "disconnect"
       /\ \A t \in Procs :
             (pc[t] = "srpc" /\ pc'[t] # "srpc" /\ ~hasClose[tcli[t]]) =>
                 sdk'[tcli[t]] = sdk[tcli[t]]]_vars

C9_Witness ==
    /\ unregPc = "done"
    /\ unregThrew
    /\ unregKind = "ok"
    /\ connectedClients = EmptyMap
    /\ \E c \in 1..nClients : sdk[c] = "open" /\ ~connected[c]

\* C10: every failure of an action or of register reaches the host as an
\* sdk.RuntimeError.
C10_FailuresAreRuntimeErrors ==
    \A t \in Tasks : pc[t] = "failed" => kind[t] = "RuntimeError"

\* C11: when the RPC of one of the six handlers fails, the handler throws an
\* sdk.RuntimeError whose message holds the internalName and the text of
\* the underlying error and is the message of that operation and no other.
C11_RpcFailureMessage ==
    (call.fn = "action" /\ result # NoResult /\ RpcIssued(call) /\ call.rpc = "throws") =>
        /\ result.status = "RuntimeError"
        /\ Contains(result.message, call.internalName)
        /\ Contains(result.message, call.error)
        /\ \A op \in Ops \ {call.op} :
              result.message # FailureMessage(op, call.internalName, call.detail, call.error)

C11_Witness ==
    /\ call.fn = "action" /\ call.op = "executeTool" /\ call.file = "index"
    /\ RpcIssued(call) /\ call.rpc = "throws"
    /\ result.status = "RuntimeError"

\* C12: nothing is retried.  An invocation moves forward only: one connect
\* attempt at most (resolve, then the race), then one RPC at most, then its
\* end; the first outcome it gets, success or failure, is the one it ends
\* with; it constructs at most one client and keeps to it; and no client
\* has its connect started twice.
C12_NoRetry ==
    [][/\ \A t \in Procs :
             /\ pc[t] = "resolve" => pc'[t] \in {"resolve", "race", "failed"}
             /\ pc[t] = "race" => pc'[t] \in {"race", "rpc", "failed"}
             /\ pc[t] = "rpc" => pc'[t] \in {"rpc", "done", "failed"}
             /\ pc[t] = "sconnect" => pc'[t] \in {"sconnect", "srpc", "failed"}
             /\ pc[t] = "srpc" => pc'[t] \in {"srpc", "done", "failed"}
             /\ pc[t] \in {"done", "failed"} => pc'[t] \in {pc[t], "idle"}
             /\ pc'[t] \in {"resolve", "race", "rpc", "sconnect", "srpc"} => kind'[t] = "none"
             /\ (tcli[t] # NoClient /\ pc[t] # "idle") => tcli'[t] \in {tcli[t], NoClient}
       /\ nClients' \in {nClients, nClients + 1}
       /\ \A c \in ClientIds :
             (sdk'[c] = "connecting" /\ sdk[c] # "connecting") => sdk[c] \in {"new", "unborn"}]_vars

C12_Witness ==
    \E t, u \in Procs :
        /\ pc[t] = "failed" /\ why[t] = "rpc"
        /\ pc[u] = "failed" /\ why[u] = "connect"
        /\ nClients = 2

\* The configuration has no usable entry for internalName n: none with that
\* name, or one that lacks a required field or whose JSON text is not valid
\* JSON or is null or a scalar.
Malformed(srv, n) ==
    \A i \in 1..Len(srv) :
        srv[i].internalName = n =>
            \/ ~srv[i].smitheryApiKey
            \/ ~srv[i].smitheryQualifiedName
            \/ srv[i].smitheryServerConfigJson \in {"absent", "invalid", "null", "scalar"}

\* C13: an invocation whose configuration is missing or malformed fails at
\* once with the configuration error: no client is constructed, no registry
\* lookup, transport or connect is started, and the map is not touched.
C13_ConfigErrorBeforeConnect ==
    [][\A t \in Procs :
          (/\ pc[t] = "idle" /\ pc'[t] # "idle"
           /\ \/ variant = "index3" /\ Malformed(servers, tname'[t])
              \/ variant = "index2" /\ configuration # "ok") =>
              /\ pc'[t] = "failed"
              /\ why'[t] = "config"
              /\ kind'[t] = "RuntimeError"
              /\ nClients' = nClients
              /\ sdk' = sdk /\ timer' = timer /\ connected' = connected
              /\ connectedClients' = connectedClients]_vars

C13_Witness ==
    \E t \in Procs :
        /\ pc[t] = "failed" /\ why[t] = "config" /\ tname[t] = "a"
        /\ Len(servers) = 1
        /\ servers[1].smitheryServerConfigJson = "invalid"
        /\ nClients = 0

C15_BadEntryRefused ==
    (/\ call.fn = "register" /\ result # NoResult /\ Len(call.servers) = 1
     /\ call.file \in {"index3", "index"}
     /\ LET e == call.servers[1]
        IN \/ e.internalName = NoName
           \/ ~e.smitheryQualifiedName
           \/ e.smitheryServerConfigJson \in {"invalid", "null", "scalar", "array"}) =>
        result.status = "RuntimeError"

\* C16: whatever value the configuration supplies for a variable, the
\* empty string included, is its value in the environment of the spawned
\* process, also when the process environment defines MCP_<name>; MCP_<name>
\* is used only for a name the configuration supplies no value for.
C16_ConfigEnvWins ==
    (call.fn = "constructor" /\ result # NoResult /\ result.status = "ok"
     /\ call.envForm \in {"object", "json"}) =>
        \A N \in VarNames :
            call.environments[N] # Unset => result.env[N] = call.environments[N]

\* The maximal runs of characters other than a space in text.
SpaceRuns(text) ==
    {i \in 1..Len(text) : text[i] # Space /\ (i = 1 \/ text[i - 1] = Space)}

\* C17 as stated: an array is returned as it is, the JSON text of an array
\* of strings gives that array, and any other string gives its tokens
\* between white space (spaces and tabs), the empty ones dropped.
C17_WhitespaceSplit ==
    (call.fn = "constructor" /\ result # NoResult /\ result.status = "ok"
     /\ call.connectionType # "sse") =>
        /\ call.args.form = "array" => result.args = call.args.elems
        /\ \A e \in ElementLists :
              (call.args.form = "string" /\ call.args.text = JsonStringify(e)) =>
                  result.args = e
        /\ (call.args.form = "string" /\ call.args.text \in Texts) =>
              /\ \A i \in 1..Len(result.args) :
                    /\ result.args[i] # <<>>
                    /\ \A k \in 1..Len(result.args[i]) :
                          result.args[i][k] \notin {Space, Tab}
              /\ Concat(result.args)
                    = SelectSeq(call.args.text, LAMBDA ch : ch \notin {Space, Tab})

\* C17 amended: an array is returned as it is, the JSON text of an array
\* of strings gives that array, and any other string is split on the space
\* character only: its tokens are its maximal runs of characters other
\* than a space, in order, so a tab stays inside its token.
C17_SpaceSplit ==
    (call.fn = "constructor" /\ result # NoResult /\ result.status = "ok"
     /\ call.connectionType # "sse") =>
        /\ call.args.form = "array" => result.args = call.args.elems
        /\ \A e \in ElementLists :
              (call.args.form = "string" /\ call.args.text = JsonStringify(e)) =>
                  result.args = e
        /\ (call.args.form = "string" /\ call.args.text \in Texts) =>
              /\ \A i \in 1..Len(result.args) :
                    /\ result.args[i] # <<>>
                    /\ \A k \in 1..Len(result.args[i]) : result.args[i][k] # Space
              /\ Concat(result.args)
                    = SelectSeq(call.args.text, LAMBDA ch : ch # Space)
              /\ Len(result.args) = Cardinality(SpaceRuns(call.args.text))

C17_Witness ==
    /\ call.fn = "constructor" /\ result # NoResult
    /\ call.args.form = "string"
    /\ call.args.text = <<"x", Tab, "x">>
    /\ result.args = << <<"x", Tab, "x">> >>

\* C18: a stdio descriptor whose command is absent or empty is refused with
\* the missing-command sdk.RuntimeError, an sse descriptor whose URL is
\* absent or empty with an Error; neither a transport nor the SDK client
\* has been constructed then.
C18_MissingTargetRefused ==
    (call.fn = "constructor" /\ result # NoResult) =>
        /\ (call.connectionType # "sse" /\ call.command \in {"absent", "empty"}) =>
              /\ result.status = "RuntimeError" /\ result.why = "noCommand"
              /\ result.transport = "none" /\ ~result.client
        /\ (call.connectionType = "sse" /\ call.sseUrl \in {"absent", "empty"}) =>
              /\ result.status = "Error" /\ result.why = "noSseUrl"
              /\ result.transport = "none" /\ ~result.client

C18_Witness ==
    /\ call.fn = "constructor" /\ call.connectionType = "stdio"
    /\ call.command = "empty"
    /\ result.status = "RuntimeError" /\ result.transport = "none"

\* C19: connect uses a ws connection of the registry info and no other.
\* Without one the attempt fails with the no-WebSocket error, no transport
\* is built, the underlying connect is not called and the client stays not
\* connected; with one, the transport is built for the first ws connection
\* and carries Authorization: Bearer <API key>.
C19_WebSocketOnly ==
    (call.fn = "connect" /\ result # NoResult) =>
        LET ws == {i \in 1..Len(call.connections) : call.connections[i].type = "ws"}
        IN /\ ws = {} =>
                /\ result.status = "Error" /\ result.why = "nows"
                /\ ~result.transport.built
                /\ ~result.connectIssued
                /\ ~result.connected
           /\ ws # {} =>
                /\ result.transport.built
                /\ result.transport.type = "ws"
                /\ result.transport.authorization = <<"Bearer ", call.apiKey>>
                /\ result.connectIssued
                /\ \E i \in ws :
                      /\ \A j \in ws : i <= j
                      /\ call.connections[i].url # "none" =>
                            result.transport.url = <<call.connections[i].url>>

C19_Witness ==
    /\ call.fn = "connect" /\ result # NoResult
    /\ Len(call.connections) = 2
    /\ call.connections[1].type = "http" /\ call.connections[2].type = "ws"
    /\ result.transport.built /\ result.transport.authorization = <<"Bearer ", "k2">>

\* C20 as stated: the direct result when the direct lookup succeeds; else
\* the lookup of the first search result; and a failure, which is the
\* could-not-find error, exactly when the direct lookup fails and the
\* search yields no result.
C20_FailsOnlyWhenNothingFound ==
    (call.fn = "findServerConfiguration" /\ result # NoResult) =>
        /\ call.direct => (result.status = "ok" /\ result.info = <<"direct">>)
        /\ (result.status = "Error") <=> (~call.direct /\ Len(call.found) = 0)
        /\ result.status = "Error" => result.why = "notFound"
        /\ result.status = "ok" /\ ~call.direct => result.info = <<call.found[1]>>

\* C20 amended: the direct result when the direct lookup succeeds, with no
\* search made; else a search with the query made of the owner (without
\* "@") and the repo, or of the whole name when it has no "/", and the
\* lookup of the first search result.  It fails with the could-not-find
\* error exactly when the direct lookup fails and the search returns no
\* server; it also fails, with the error of that request, when the search
\* request fails or when the lookup of the first search result fails.
C20_ResolutionWithFallback ==
    (call.fn = "findServerConfiguration" /\ result # NoResult) =>
        /\ call.direct =>
              /\ result.status = "ok" /\ result.info = <<"direct">>
              /\ result.requests = <<"getServer">>
        /\ ~call.direct =>
              /\ Len(result.requests) >= 2 /\ result.requests[2] = "listServers"
              /\ call.qualifiedName.slash =>
                    result.query = <<"owner:", call.qualifiedName.owner,
                                     " repo:", call.qualifiedName.repo, " is:deployed">>
        /\ (result.status = "ok" /\ ~call.direct) => result.info = <<call.found[1]>>
        /\ (result.status = "Error" /\ result.why = "notFound")
              <=> (~call.direct /\ ~call.searchThrows /\ Len(call.found) = 0)
        /\ (result.status = "Error")
              <=> (~call.direct /\ (call.searchThrows \/ Len(call.found) = 0 \/ ~call.second))

C20_Witness ==
    /\ call.fn = "findServerConfiguration" /\ ~call.direct
    /\ call.found = <<"@p/q", "@o/r">>
    /\ result.status = "ok" /\ result.info = <<"@p/q">>

\* C21: every failure of the underlying connect of the stdio/sse client is
\* an sdk.RuntimeError with one of three messages: command not found when
\* the error text has ENOENT, and then the message names the command of the
\* configuration; closed unexpectedly when it has "closed" or "exit code";
\* the generic message otherwise.
C21_ConnectFailureClassified ==
    (call.fn = "stdioConnect" /\ result # NoResult /\ call.outcome = "rejects") =>
        /\ result.status = "RuntimeError"
        /\ Includes(call.error, "ENOENT") =>
              /\ result.message[1] = "Connection failed: Command '"
              /\ Contains(result.message, call.command)
        /\ (~Includes(call.error, "ENOENT")
              /\ (Includes(call.error, "closed") \/ Includes(call.error, "exit code"))) =>
              result.message[1] = "MCP server connection failed or closed unexpectedly. "
        /\ (~Includes(call.error, "ENOENT") /\ ~Includes(call.error, "closed")
              /\ ~Includes(call.error, "exit code")) =>
              result.message[1] = "Failed to connect to MCP server: "

\* C22: listTools gives one output tool per tool of the answer, in the same
\* order, each with name, description and schema; the description is the
\* server's when it is present and otherwise "Execute the <name> tool" with
\* the name the output tool carries.
C22_ToolProjection ==
    (call.fn = "listTools" /\ result # NoResult) =>
        /\ Len(result.tools) = Len(call.tools)
        /\ \A i \in 1..Len(call.tools) :
              /\ DOMAIN result.tools[i] = {"name", "description", "schema"}
              /\ call.tools[i].name # Absent => result.tools[i].name = call.tools[i].name
              /\ call.tools[i].description \notin {Absent, ""} =>
                    result.tools[i].description = <<call.tools[i].description>>
              /\ call.tools[i].description = Absent =>
                    result.tools[i].description =
                       <<"Execute the ", TemplateText(result.tools[i].name), " tool">>

\* C23: connectedClients changes only in getOrReconnectClient and register
\* (the client whose connect just completed is stored under its name) and
\* in unregister (the map is cleared); the step in which the RPC of an
\* action returns or fails leaves the map as it is.
C23_MapOnlyByManager ==
    [][ /\ connectedClients' # connectedClients =>
              \/ \E t \in Tasks :
                    /\ pc[t] = "race"
                    /\ connectedClients' = [connectedClients EXCEPT ![tname[t]] = tcli[t]]
                    /\ connected'[tcli[t]]
              \/ /\ unregPc \in {"idle", "waiting"} /\ unregPc' = "done"
                 /\ connectedClients' = EmptyMap
        /\ \A t \in Procs :
              (pc[t] = "rpc" /\ pc'[t] # "rpc") => connectedClients' = connectedClients
      ]_vars

C23_Witness ==
    \E t \in Procs :
        /\ pc[t] = "failed" /\ why[t] = "rpc"
        /\ connectedClients["a"] # NoClient /\ connectedClients["b"] # NoClient

\* The text of a line before its first colon, and the text after it.
BeforeFirstColon(line) ==
    LET colons == {i \in 1..Len(line) : line[i] = Colon}
    IN SubSeq(line, 1, (CHOOSE k \in colons : \A m \in colons : k <= m) - 1)

AfterFirstColon(line) ==
    LET colons == {i \in 1..Len(line) : line[i] = Colon}
    IN SubSeq(line, (CHOOSE k \in colons : \A m \in colons : k <= m) + 1, Len(line))

\* The lines of a header text that read Name: Value.
NameValueLines(text) ==
    LET lines == Split(text, Newline, <<>>)
    IN {i \in 1..Len(lines) :
          /\ \E k \in 1..Len(lines[i]) : lines[i][k] = Colon
          /\ Trim(BeforeFirstColon(lines[i])) # <<>>
          /\ Trim(AfterFirstColon(lines[i])) # <<>>}

\* C24: every Name: Value line of the header text gives a header named by
\* the trimmed text before its first colon, whose value is the whole
\* trimmed text after that colon (the last such line of a name counts);
\* the event-source request and the message-post request get the same
\* headers.
C24_HeaderValueWhole ==
    (call.fn = "sseHeaders" /\ result # NoResult) =>
        /\ result.eventSourceHeaders = result.requestHeaders
        /\ LET lines == Split(call.headers, Newline, <<>>)
           IN \A i \in NameValueLines(call.headers) :
                 (\A j \in NameValueLines(call.headers) :
                     j > i => Trim(BeforeFirstColon(lines[j])) # Trim(BeforeFirstColon(lines[i])))
                 => [name |-> Trim(BeforeFirstColon(lines[i])),
                     value |-> Trim(AfterFirstColon(lines[i]))] \in result.requestHeaders

\* C25: register connects the entries of the list in order, one at a time;
\* when the entry at position k fails, register fails for good, the failing
\* step constructs no client and leaves the map and every other client as
\* they are, and no later entry is attempted.
C25_RegisterStopsAtFirstFailure ==
    [][ /\ (pc'[Reg] \in {"resolve", "race"}) =>
              /\ regIdx' \in 1..Len(servers)
              /\ tname'[Reg] = servers[regIdx'].internalName
        /\ (regIdx' # regIdx /\ regIdx' # 0) =>
              /\ regIdx' = regIdx + 1
              /\ regIdx >= 1 =>
                    /\ connectedClients'[servers[regIdx].internalName] = tcli[Reg]
                    /\ connected'[tcli[Reg]]
        /\ (pc[Reg] # "failed" /\ pc'[Reg] = "failed") =>
              /\ connectedClients' = connectedClients
              /\ nClients' = nClients
              /\ \A c \in ClientIds :
                    c # tcli[Reg] => (connected'[c] = connected[c] /\ sdk'[c] = sdk[c])
        /\ pc[Reg] = "failed" =>
              /\ pc'[Reg] = "failed" /\ regIdx' = 0 /\ tcli'[Reg] = NoClient
      ]_vars

C25_Witness ==
    /\ Len(servers) = 2 /\ servers[2].internalName = "b"
    /\ pc[Reg] = "failed" /\ why[Reg] \in {"resolution", "nows", "connect", "timeout"}
    /\ connectedClients["a"] = 1 /\ connected[1] /\ connectedClients["b"] = NoClient
    /\ nClients = 2 /\ cname[2] = "b" /\ ~connected[2]
    /\ unregPc = "idle" /\ \A t \in Procs : pc[t] = "idle" /\ kind[t] = "none"

\* C26: unregister calls disconnect on every client that is in the map when
\* it starts, goes on when one of them throws, and ends with an empty map;
\* whatever runs beside it, every client the clear removes has had
\* disconnect called on it: none is dropped while it is still connected.
C26_UnregisterDropsOnlyDisconnected ==
    [][ /\ (unregPc = "idle" /\ unregPc' = "waiting") =>
              unregPending' = {c \in Held(connectedClients) : connected[c]}
        /\ (unregPc # "done" /\ unregPc' = "done") =>
              /\ connectedClients' = EmptyMap
              /\ unregKind' = "ok"
              /\ \A c \in Held(connectedClients) : ~connected'[c]
      ]_vars

\* C27: the loser of the race between the underlying connect and the 30 s
\* timer changes nothing.  When the timer of a client that is marked
\* connected fires, the flag, the map and every task stay as they are; when
\* the underlying connect of a client whose timer has fired completes, the
\* client is not marked connected, the map stays as it is and no task moves.
C27_RaceLoserHasNoEffect ==
    [][ variant = "index3" =>
          \A c \in ClientIds :
             /\ (connected[c] /\ timer[c] = "armed" /\ timer'[c] = "unset") =>
                   /\ connected'[c]
                   /\ connectedClients' = connectedClients
                   /\ pc' = pc /\ kind' = kind /\ why' = why
             /\ (sdk[c] = "connecting" /\ timer[c] = "unset" /\ sdk'[c] = "open") =>
                   /\ ~connected'[c]
                   /\ connectedClients' = connectedClients
                   /\ pc' = pc /\ kind' = kind
      ]_vars

\* Both losers have been seen: client 1 connected and its timer fired
\* afterwards; client 2 timed out and its connection opened afterwards.
C27_Witness ==
    /\ variant = "index3"
    /\ connected[1] /\ timer[1] = "unset" /\ connectedClients[cname[1]] = 1
    /\ sdk[2] = "open" /\ timer[2] = "unset" /\ ~connected[2]
    /\ \A n \in Names : connectedClients[n] # 2

\* C28: connect on a connected client returns at once, with no registry
\* lookup, no transport and no underlying connect; disconnect on a client
\* that is not connected returns at once without an underlying disconnect;
\* after a disconnect of a connected client, returned or thrown, and after
\* a failed connect, the flag is false.
C28_FlagIdempotence ==
    (call.fn = "clientMethod" /\ result # NoResult) =>
        /\ (call.method = "connect" /\ call.connected) =>
              /\ result.status = "ok" /\ result.connected
              /\ result.lookups = 0 /\ result.transports = 0 /\ result.connects = 0
        /\ (call.method = "disconnect" /\ ~call.connected) =>
              /\ result.status = "ok" /\ ~result.connected
              /\ result.disconnects = 0
        /\ (call.method = "disconnect" /\ call.connected) =>
              /\ ~result.connected /\ result.disconnects = 1
              /\ (result.status = "Error") <=> (call.close = "throws")
        /\ (call.method = "connect" /\ result.status = "Error") => ~result.connected
        /\ (call.method = "connect" /\ ~call.connected) =>
              (result.connected <=> (call.resolve = "ws" /\ call.race = "resolves"))

C28_Witness ==
    /\ call.fn = "clientMethod" /\ call.method = "connect" /\ call.connected
    /\ call.resolve = "ws" /\ call.race = "timeout"
    /\ result # NoResult /\ result.connected /\ result.lookups = 0

\* C29: in the per-call stdio variant an RPC is awaited only on a client
\* whose connect succeeded, and a client no handler holds any more has been
\* disconnected: its connection is not open.
C29_NothingOutlivesTheAction ==
    variant = "index2" =>
        /\ \A t \in Procs : pc[t] = "srpc" => sdk[tcli[t]] = "open"
        /\ \A t \in Procs : pc[t] \in {"idle", "done", "failed"} => tcli[t] = NoClient
        /\ \A c \in 1..nClients :
              (\A t \in Procs : tcli[t] # c) => sdk[c] \notin {"connecting", "open"}

====
